---- MODULE Spec2Model ----
(***************************************************************************)
(* A model of the simba_cement backend: the committed database rows, and   *)
(* the HTTP handlers of app/routers as steps of request slots.  A slot is  *)
(* one request in flight with its own database session; the statements a   *)
(* handler awaits are its steps, and other slots may run between them.     *)
(* A session's writes reach the committed rows only at its commit.         *)
(***************************************************************************)
EXTENDS Integers, FiniteSets, Sequences, TLC

VARIABLES
    products,    \* products table: id -> row, for the ids that exist
    productSeq,  \* products.id sequence
    carts,       \* carts table: the user ids that own a cart row (user_id is unique)
    cartItems,   \* cart_items table: set of rows
    itemSeq,     \* cart_items.id sequence
    addresses,   \* addresses table: set of rows
    orders,      \* orders table: set of rows
    orderItems,  \* order_items table: set of rows
    orderSeq,    \* orders.id sequence
    req,         \* slot -> the request running in that slot, with its session state
    last,        \* the response of the request that ended last
    users,       \* users table: id -> row
    userSeq,     \* users.id sequence
    mailbox,     \* user id -> the reset codes delivered to the user's mailbox
    now,         \* the clock, in minutes
    known,       \* what the outside client has learnt: tokens and codes
    hist,        \* history of the auth requests: what was supplied, who reset,
                 \* when each reset token was issued
    deals,       \* deals table: set of rows
    dealItems,   \* deal_items table: set of rows
    dealSeq      \* deals.id sequence

shopVarsButLast == <<products, productSeq, carts, cartItems, itemSeq, addresses,
                     orders, orderItems, orderSeq, req>>
shopVars == <<shopVarsButLast, last>>
authVars == <<users, userSeq, mailbox, now, known, hist>>
dealVars == <<deals, dealItems, dealSeq>>
vars == <<shopVars, authVars, dealVars>>

----------------------------------------------------------------------------
(* Bounds of the model *)

InitStock == 1   \* stock of each product at the start
MaxQty == 1      \* largest quantity a cart request carries while requests interleave
MaxProducts == 3 \* product ids handed out
MaxUsers == 2    \* user ids handed out
MaxTokens == 2   \* reset tokens issued
MaxItems == 2    \* cart item ids handed out
MaxOrders == 2   \* order ids handed out
MaxDeals == 2    \* deal ids handed out

UserIds == {1, 2}
ProductIds == {1, 2}
Slots == {1, 2}
AddressInputs == {1, 2, 3}   \* 1 is user 1's, 2 is user 2's, 3 does not exist

Idle == [op |-> "idle"]

----------------------------------------------------------------------------
(* Helpers over rows *)

RECURSIVE SumQty(_)
SumQty(S) ==
    IF S = {} THEN 0
    ELSE LET x == CHOOSE y \in S : TRUE IN x.quantity + SumQty(S \ {x})

ItemsOfCart(u) == {ci \in cartItems : ci.cart_id = u}

ItemsOfProduct(items, p) == {ci \in items : ci.product_id = p}

MinId(items) == CHOOSE i \in {ci.id : ci \in items} : \A ci \in items : i <= ci.id

\* an HTTP response: the status code and, where the model tells requests
\* apart by it, the detail of the error
Response(op, status) == [op |-> op, status |-> status, detail |-> ""]

Respond(s, op, status) ==
    /\ req' = [req EXCEPT ![s] = Idle]
    /\ last' = Response(op, status)

Active(op) == {s \in Slots : req[s].op = op}

----------------------------------------------------------------------------
(* checkout: app/routers/order.py *)

\* a validation that looks at the first cart item only
CheckoutValidateFirstOnly(items, prods) ==
    IF items = {} THEN 200
    ELSE LET i == MinId(items)
             item == CHOOSE ci \in items : ci.id = i
         IN IF item.product_id \notin DOMAIN prods THEN 404
            ELSE IF item.quantity > prods[item.product_id].stock THEN 400
            ELSE 200

\* lines 49-62: the first cart item (in id order) that fails decides the error
RECURSIVE CheckoutValidate(_, _)
CheckoutValidate(items, prods) ==
    IF items = {} THEN 200
    ELSE LET i == MinId(items)
             item == CHOOSE ci \in items : ci.id = i
         IN IF item.product_id \notin DOMAIN prods THEN 404
            ELSE IF item.quantity > prods[item.product_id].stock THEN 400
            ELSE CheckoutValidate(items \ {item}, prods)

\* lines 50, 62: subtotal += float(product.price) * item.quantity
RECURSIVE CheckoutSubtotal(_, _)
CheckoutSubtotal(items, prods) ==
    IF items = {} THEN 0
    ELSE LET item == CHOOSE ci \in items : TRUE
         IN prods[item.product_id].price * item.quantity
            + CheckoutSubtotal(items \ {item}, prods)

\* lines 83-90: one OrderItem per cart item, with the product's name and price
CheckoutOrderItems(order_id, items, prods) ==
    {[id |-> ci.id, order_id |-> order_id, product_id |-> ci.product_id,
      product_name |-> prods[ci.product_id].name,
      price_at_purchase |-> prods[ci.product_id].price,
      quantity |-> ci.quantity] : ci \in items}

\* a decrement by one per cart item, whatever its quantity
CheckoutNewStockByOne(items, prods, p) ==
    prods[p].stock - Cardinality(ItemsOfProduct(items, p))

\* lines 92-93: product.stock -= item.quantity on the loaded product object
CheckoutNewStock(items, prods, p) ==
    prods[p].stock - SumQty(ItemsOfProduct(items, p))

\* an address query by the address id alone, whoever owns the address
StartCheckoutAnyAddress(s, u, a) ==
    /\ req[s] = Idle
    /\ orderSeq + Cardinality(Active("checkout")) < MaxOrders
    /\ IF ~\E ad \in addresses : ad.id = a
       THEN Respond(s, "checkout", 404)
       ELSE IF u \notin carts THEN Respond(s, "checkout", 404)
       ELSE IF ItemsOfCart(u) = {} THEN Respond(s, "checkout", 400)
       ELSE /\ req' = [req EXCEPT ![s] =
                   [op |-> "checkout", pc |-> "products", user |-> u,
                    address_id |-> a, items |-> ItemsOfCart(u)]]
            /\ UNCHANGED last
    /\ UNCHANGED <<products, productSeq, carts, cartItems, itemSeq, addresses,
                   orders, orderItems, orderSeq>>

\* lines 23-42: the request arrives; the address query, then the cart query
\* with the cart's items
StartCheckout(s, u, a) ==
    /\ req[s] = Idle
    /\ orderSeq + Cardinality(Active("checkout")) < MaxOrders
    /\ IF ~\E ad \in addresses : ad.id = a /\ ad.user_id = u
       THEN Respond(s, "checkout", 404)
       ELSE IF u \notin carts THEN Respond(s, "checkout", 404)
       ELSE IF ItemsOfCart(u) = {} THEN Respond(s, "checkout", 400)
       ELSE /\ req' = [req EXCEPT ![s] =
                   [op |-> "checkout", pc |-> "products", user |-> u,
                    address_id |-> a, items |-> ItemsOfCart(u)]]
            /\ UNCHANGED last
    /\ UNCHANGED <<products, productSeq, carts, cartItems, itemSeq, addresses,
                   orders, orderItems, orderSeq>>

\* lines 44-65: load the products of the cart, validate, compute the subtotal
CheckoutLoadProducts(s) ==
    /\ req[s].op = "checkout" /\ req[s].pc = "products"
    /\ LET ids == {ci.product_id : ci \in req[s].items} \cap DOMAIN products
           prods == [p \in ids |-> products[p]]
           status == CheckoutValidate(req[s].items, prods)
       IN IF status # 200 THEN Respond(s, "checkout", status)
          ELSE /\ req' = [req EXCEPT ![s] =
                      [op |-> "checkout", pc |-> "flush", user |-> req[s].user,
                       address_id |-> req[s].address_id, items |-> req[s].items,
                       prods |-> prods,
                       subtotal |-> CheckoutSubtotal(req[s].items, prods)]]
               /\ UNCHANGED last
    /\ UNCHANGED <<products, productSeq, carts, cartItems, itemSeq, addresses,
                   orders, orderItems, orderSeq>>

\* the Order row built at lines 68-75
CheckoutOrder(r, id) ==
    [id |-> id, buyer_id |-> r.user, address_id |-> r.address_id,
     subtotal |-> r.subtotal, shipping_fee |-> 0, total_amount |-> r.subtotal + 0]

\* a flush that commits: the order row alone becomes visible
FlushOrderCommits(s) ==
    /\ req[s].op = "checkout" /\ req[s].pc = "flush"
    /\ orderSeq' = orderSeq + 1
    /\ orders' = orders \cup {CheckoutOrder(req[s], orderSeq + 1)}
    /\ req' = [req EXCEPT ![s] =
            [op |-> "checkout", pc |-> "commit", user |-> req[s].user,
             address_id |-> req[s].address_id, items |-> req[s].items,
             prods |-> req[s].prods, subtotal |-> req[s].subtotal,
             order_id |-> orderSeq + 1]]
    /\ UNCHANGED <<products, productSeq, carts, cartItems, itemSeq, addresses,
                   orderItems, last>>

\* lines 76-77: db.add(order); await db.flush(): the INSERT runs inside the
\* transaction and takes the next id of the sequence; nothing is committed.
\* orders.address_id references addresses.id (app/models.py line 392): the
\* INSERT fails if the address row is gone.
FlushOrder(s) ==
    /\ req[s].op = "checkout" /\ req[s].pc = "flush"
    /\ orderSeq' = orderSeq + 1
    /\ IF \E ad \in addresses : ad.id = req[s].address_id
       THEN /\ req' = [req EXCEPT ![s] =
                   [op |-> "checkout", pc |-> "commit", user |-> req[s].user,
                    address_id |-> req[s].address_id, items |-> req[s].items,
                    prods |-> req[s].prods, subtotal |-> req[s].subtotal,
                    order_id |-> orderSeq + 1]]
            /\ UNCHANGED last
       ELSE Respond(s, "checkout", 500)
    /\ UNCHANGED <<products, productSeq, carts, cartItems, itemSeq, addresses,
                   orders, orderItems>>

\* lines 79-100: order items, stock updates and cart item deletes are flushed
\* and committed together.  The UPDATE of a product row that is gone matches no
\* row and the ORM raises; the DELETE of a cart item that is gone only warns.
CheckoutCommit(s) ==
    /\ req[s].op = "checkout" /\ req[s].pc = "commit"
    /\ LET r == req[s]
           written == {ci.product_id : ci \in r.items}
       IN IF written \subseteq DOMAIN products
          THEN /\ orders' = orders \cup {CheckoutOrder(r, r.order_id)}
               /\ orderItems' = orderItems
                                \cup CheckoutOrderItems(r.order_id, r.items, r.prods)
               /\ products' = [p \in DOMAIN products |->
                       IF p \in written
                       THEN [products[p] EXCEPT
                                !.stock = CheckoutNewStock(r.items, r.prods, p)]
                       ELSE products[p]]
               /\ cartItems' = {ci \in cartItems :
                                    ci.id \notin {x.id : x \in r.items}}
               /\ Respond(s, "checkout", 200)
          ELSE /\ Respond(s, "checkout", 500)
               /\ UNCHANGED <<orders, orderItems, products, cartItems>>
    /\ UNCHANGED <<productSeq, carts, itemSeq, addresses, orderSeq>>

----------------------------------------------------------------------------
(* addresses: app/routers/address.py *)

\* address_id of an order whose address was deleted (SET NULL)
NullAddress == 0

\* lines 88-101.  The order row a checkout has flushed holds a lock on the
\* address row it references until its transaction ends, so the DELETE waits
\* for it; orders of the address get address_id NULL (app/models.py line 392).
delete_address(u, a) ==
    /\ ~\E s \in Slots : /\ req[s].op = "checkout" /\ req[s].pc = "commit"
                        /\ req[s].address_id = a
    /\ IF \E ad \in addresses : ad.id = a /\ ad.user_id = u
       THEN /\ addresses' = {ad \in addresses : ad.id # a}
            /\ orders' = {IF o.address_id = a
                          THEN [o EXCEPT !.address_id = NullAddress] ELSE o :
                          o \in orders}
            /\ last' = Response("delete_address", 200)
       ELSE /\ last' = Response("delete_address", 404)
            /\ UNCHANGED <<addresses, orders>>
    /\ UNCHANGED <<products, productSeq, carts, cartItems, itemSeq, orderItems,
                   orderSeq, req>>

----------------------------------------------------------------------------
(* cart: app/routers/cart.py *)

\* a check of the requested quantity alone, whatever the cart already holds
AddToCartAllowedRequestedOnly(hasItem, inCart, quantity, stock) ==
    quantity <= stock

\* lines 32-56: the cart of the caller, created and committed if there is none
get_my_cart(u) ==
    /\ carts' = carts \cup {u}
    /\ last' = Response("get_my_cart", 200)
    /\ UNCHANGED <<products, productSeq, cartItems, itemSeq, addresses, orders,
                   orderItems, orderSeq, req>>

\* lines 83-91: the quantity the item would have must not exceed the stock
AddToCartAllowed(hasItem, inCart, quantity, stock) ==
    IF hasItem THEN inCart + quantity <= stock ELSE quantity <= stock

\* the requested quantity replaces the one in the cart
AddToCartQuantityReplaces(hasItem, inCart, quantity) == quantity

\* lines 84, 87, 92: the quantity the item gets
AddToCartQuantity(hasItem, inCart, quantity) ==
    IF hasItem THEN inCart + quantity ELSE quantity

\* lines 65-94: product lookup, get_or_create_cart, item lookup and the checks
StartAddToCart(s, u, p, q) ==
    /\ req[s] = Idle
    /\ itemSeq + Cardinality(Active("add_to_cart")) < MaxItems
    /\ LET found == {ci \in cartItems : ci.cart_id = u /\ ci.product_id = p}
           hasItem == found # {}
           item == CHOOSE ci \in found : TRUE
           inCart == IF hasItem THEN item.quantity ELSE 0
       IN IF p \notin DOMAIN products THEN Respond(s, "add_to_cart", 404)
          ELSE IF products[p].stock <= 0 THEN Respond(s, "add_to_cart", 400)
          ELSE IF Cardinality(found) > 1 THEN Respond(s, "add_to_cart", 500)
          ELSE IF ~AddToCartAllowed(hasItem, inCart, q, products[p].stock)
               THEN Respond(s, "add_to_cart", 400)
          ELSE /\ req' = [req EXCEPT ![s] =
                      [op |-> "add_to_cart", pc |-> "commit", user |-> u,
                       product_id |-> p,
                       item_id |-> IF hasItem THEN item.id ELSE 0,
                       quantity |-> AddToCartQuantity(hasItem, inCart, q),
                       new_cart |-> u \notin carts]]
               /\ UNCHANGED last
    /\ UNCHANGED <<products, productSeq, carts, cartItems, itemSeq, addresses,
                   orders, orderItems, orderSeq>>

\* line 96: the commit.  A second cart row for the user violates the unique
\* user_id; an UPDATE of an item that is gone matches no row; an INSERT for a
\* product that is gone violates the foreign key.
CommitAddToCart(s) ==
    /\ req[s].op = "add_to_cart" /\ req[s].pc = "commit"
    /\ LET r == req[s]
           failed == \/ (r.new_cart /\ r.user \in carts)
                     \/ (r.item_id # 0 /\ ~\E ci \in cartItems : ci.id = r.item_id)
                     \/ (r.item_id = 0 /\ r.product_id \notin DOMAIN products)
       IN IF failed
          THEN /\ Respond(s, "add_to_cart", 500)
               /\ UNCHANGED <<carts, cartItems, itemSeq>>
          ELSE /\ carts' = carts \cup {r.user}
               /\ IF r.item_id # 0
                  THEN /\ cartItems' = {IF ci.id = r.item_id
                                        THEN [ci EXCEPT !.quantity = r.quantity]
                                        ELSE ci : ci \in cartItems}
                       /\ UNCHANGED itemSeq
                  ELSE /\ cartItems' = cartItems \cup
                               {[id |-> itemSeq + 1, cart_id |-> r.user,
                                 product_id |-> r.product_id,
                                 quantity |-> r.quantity]}
                       /\ itemSeq' = itemSeq + 1
               /\ Respond(s, "add_to_cart", 201)
    /\ UNCHANGED <<products, productSeq, addresses, orders, orderItems, orderSeq>>

\* lines 107-124: the item must be in the caller's cart, and the new quantity
\* must not exceed the stock
StartUpdateCartItem(s, u, i, q) ==
    /\ req[s] = Idle
    /\ LET found == {ci \in cartItems : ci.id = i /\ ci.cart_id = u /\ u \in carts}
           item == CHOOSE ci \in found : TRUE
       IN IF found = {} THEN Respond(s, "update_cart_item", 404)
          ELSE IF item.product_id \notin DOMAIN products
               THEN Respond(s, "update_cart_item", 404)
          ELSE IF q > products[item.product_id].stock
               THEN Respond(s, "update_cart_item", 400)
          ELSE /\ req' = [req EXCEPT ![s] =
                      [op |-> "update_cart_item", pc |-> "commit", user |-> u,
                       item_id |-> i, quantity |-> q]]
               /\ UNCHANGED last
    /\ UNCHANGED <<products, productSeq, carts, cartItems, itemSeq, addresses,
                   orders, orderItems, orderSeq>>

\* line 125
CommitUpdateCartItem(s) ==
    /\ req[s].op = "update_cart_item" /\ req[s].pc = "commit"
    /\ IF \E ci \in cartItems : ci.id = req[s].item_id
       THEN /\ cartItems' = {IF ci.id = req[s].item_id
                             THEN [ci EXCEPT !.quantity = req[s].quantity]
                             ELSE ci : ci \in cartItems}
            /\ Respond(s, "update_cart_item", 200)
       ELSE /\ Respond(s, "update_cart_item", 500)
            /\ UNCHANGED cartItems
    /\ UNCHANGED <<products, productSeq, carts, itemSeq, addresses, orders,
                   orderItems, orderSeq>>

\* a lookup of the item by its id alone, whoever owns the cart
StartRemoveCartItemAnyCart(s, u, i) ==
    /\ req[s] = Idle
    /\ IF \E ci \in cartItems : ci.id = i
       THEN /\ req' = [req EXCEPT ![s] =
                   [op |-> "remove_cart_item", pc |-> "commit", user |-> u,
                    item_id |-> i]]
            /\ UNCHANGED last
       ELSE Respond(s, "remove_cart_item", 404)
    /\ UNCHANGED <<products, productSeq, carts, cartItems, itemSeq, addresses,
                   orders, orderItems, orderSeq>>

\* lines 135-144
StartRemoveCartItem(s, u, i) ==
    /\ req[s] = Idle
    /\ IF \E ci \in cartItems : ci.id = i /\ ci.cart_id = u /\ u \in carts
       THEN /\ req' = [req EXCEPT ![s] =
                   [op |-> "remove_cart_item", pc |-> "commit", user |-> u,
                    item_id |-> i]]
            /\ UNCHANGED last
       ELSE Respond(s, "remove_cart_item", 404)
    /\ UNCHANGED <<products, productSeq, carts, cartItems, itemSeq, addresses,
                   orders, orderItems, orderSeq>>

\* line 145
CommitRemoveCartItem(s) ==
    /\ req[s].op = "remove_cart_item" /\ req[s].pc = "commit"
    /\ cartItems' = {ci \in cartItems : ci.id # req[s].item_id}
    /\ Respond(s, "remove_cart_item", 200)
    /\ UNCHANGED <<products, productSeq, carts, itemSeq, addresses, orders,
                   orderItems, orderSeq>>

\* app/database.py lines 40-45: a request that dies before its commit has its
\* session closed, which rolls back what it flushed
Abort(s) ==
    /\ req[s] # Idle
    /\ Respond(s, req[s].op, 500)
    /\ UNCHANGED <<products, productSeq, carts, cartItems, itemSeq, addresses,
                   orders, orderItems, orderSeq>>

----------------------------------------------------------------------------
(* catalog: app/routers/products.py.  The admin's requests are single steps. *)

Has(data, field) == field \in DOMAIN data

Admin(op, status) == last' = Response(op, status)

\* line 71: discount_percentage=data.discount_percentage or 0.0; the schema
\* (schemas.py lines 105-123) puts no range on the field
CreateProductDiscount(data) ==
    IF Has(data, "discount_percentage") /\ data.discount_percentage # 0
    THEN data.discount_percentage ELSE 0

\* lines 53-80
CreateProduct(data) ==
    /\ productSeq < MaxProducts
    /\ productSeq' = productSeq + 1
    /\ products' = [p \in DOMAIN products \cup {productSeq + 1} |->
                      IF p = productSeq + 1
                      THEN [name |-> data.name, price |-> data.price,
                            discount_percentage |-> CreateProductDiscount(data),
                            stock |-> data.stock]
                      ELSE products[p]]
    /\ Admin("create_product", 200)
    /\ UNCHANGED <<carts, cartItems, itemSeq, addresses, orders, orderItems,
                   orderSeq, req>>

\* lines 160-162
UpdateProductDiscountOk(data) ==
    Has(data, "discount_percentage") =>
        (0 <= data.discount_percentage /\ data.discount_percentage <= 100)

\* lines 152-165: the fields of the request that are not None replace the row's
UpdateProductRow(row, data) ==
    [name |-> IF Has(data, "name") THEN data.name ELSE row.name,
     price |-> IF Has(data, "price") THEN data.price ELSE row.price,
     discount_percentage |-> IF Has(data, "discount_percentage")
                             THEN data.discount_percentage
                             ELSE row.discount_percentage,
     stock |-> IF Has(data, "stock") THEN data.stock ELSE row.stock]

\* lines 141-201
UpdateProduct(p, data) ==
    /\ IF p \notin DOMAIN products
       THEN Admin("update_product", 404) /\ UNCHANGED products
       ELSE IF ~UpdateProductDiscountOk(data)
       THEN Admin("update_product", 400) /\ UNCHANGED products
       ELSE /\ products' = [products EXCEPT ![p] = UpdateProductRow(products[p], data)]
            /\ Admin("update_product", 200)
    /\ UNCHANGED <<productSeq, carts, cartItems, itemSeq, addresses, orders,
                   orderItems, orderSeq, req>>

\* lines 207-220, with app/models.py lines 323-324: Product.cart_items and
\* Product.order_items cascade "all, delete-orphan", so the product's cart
\* items and order items are deleted with it
DeleteProduct(p) ==
    /\ IF p \notin DOMAIN products
       THEN /\ Admin("delete_product", 404)
            /\ UNCHANGED <<products, cartItems, orderItems>>
       ELSE /\ products' = [q \in DOMAIN products \ {p} |-> products[q]]
            /\ cartItems' = {ci \in cartItems : ci.product_id # p}
            /\ orderItems' = {oi \in orderItems : oi.product_id # p}
            /\ Admin("delete_product", 200)
    /\ UNCHANGED <<productSeq, carts, itemSeq, addresses, orders, orderSeq, req>>

----------------------------------------------------------------------------
(* auth: app/routers/users.py, app/routers/settings.py, app/core *)

\* A password is modelled by what validate_password reads of it: its length
\* and which of the four character classes of the rules occur in it: "upper"
\* is A-Z, "lower" a-z, "digit" 0-9 and "special" the set !@#$%^&*(),.?":{}|<>.
\* Characters outside the four classes count for the length alone.
CharClasses == {"upper", "lower", "digit", "special"}
MinPasswordLength == 8
BcryptMax == 72
PasswordInputs ==
    {[len |-> MinPasswordLength, classes |-> c] : c \in SUBSET CharClasses}
    \cup {[len |-> MinPasswordLength - 1, classes |-> CharClasses]}

\* a validation without the digit rule
ValidatePasswordNoDigit(password) ==
    IF password.len < MinPasswordLength THEN 400
    ELSE IF "upper" \notin password.classes THEN 400
    ELSE IF "lower" \notin password.classes THEN 400
    ELSE IF "special" \notin password.classes THEN 400
    ELSE 200

\* users.py lines 17-42: 400 at the first rule the password breaks
ValidatePassword(password) ==
    IF password.len < MinPasswordLength THEN 400
    ELSE IF "upper" \notin password.classes THEN 400
    ELSE IF "lower" \notin password.classes THEN 400
    ELSE IF "digit" \notin password.classes THEN 400
    ELSE IF "special" \notin password.classes THEN 400
    ELSE 200

\* security.py lines 12-19: the hash of the password cut to 72 characters
HashPassword(password) ==
    [bcrypt |-> [password EXCEPT
                    !.len = IF password.len > BcryptMax THEN BcryptMax ELSE password.len]]

\* Phone numbers are strings of characters.  The national numbers of the model
\* stand for the two examples of normalize_phone's docstring, 712345678 and
\* 112345678.
ValidNational == {<<"7", "1">>, <<"1", "1">>}
CountryCode == <<"+", "2", "5", "4">>
LocalForm(n) == <<"0">> \o n
IntlForm(n) == CountryCode \o n
NoPhone == <<>>
PhoneInputs ==
    {LocalForm(n) : n \in ValidNational} \cup {IntlForm(n) : n \in ValidNational}
    \cup ValidNational \cup {NoPhone, <<"0", "0">>, <<"+", "2", "5", "4", "0">>}

\* phone_validation.py lines 3-19: parse with the default region KE (a number
\* with "+" carries its country code, a leading 0 is the national prefix),
\* fail unless the number is valid, format as E.164
NormalizePhone(phone) ==
    LET national ==
            IF phone = NoPhone THEN <<>>
            ELSE IF Head(phone) = "+"
                 THEN IF Len(phone) > 4 /\ SubSeq(phone, 1, 4) = CountryCode
                      THEN SubSeq(phone, 5, Len(phone)) ELSE <<>>
            ELSE IF Head(phone) = "0" THEN Tail(phone)
            ELSE phone
    IN IF national \in ValidNational
       THEN [ok |-> TRUE, value |-> CountryCode \o national]
       ELSE [ok |-> FALSE, value |-> <<>>]

Emails == {"a@x", "b@x"}
StrongPassword == [len |-> MinPasswordLength, classes |-> CharClasses]
RegisterInputs(phones, passwords) ==
    {[email |-> e, phone |-> ph, password |-> pw] :
        e \in Emails, ph \in phones, pw \in passwords}

UserByEmail(e) == {id \in DOMAIN users : users[id].email = e}

\* a user row that keeps the phone as it was supplied
RegisterUserRowRawPhone(data) ==
    [email |-> data.email, phone |-> data.phone,
     password_hash |-> HashPassword(data.password)]

\* users.py lines 70-75
RegisterUserRow(data) ==
    [email |-> data.email, phone |-> NormalizePhone(data.phone).value,
     password_hash |-> HashPassword(data.password)]

Refuse(s, op, status, detail) ==
    /\ req' = [req EXCEPT ![s] = Idle]
    /\ last' = [op |-> op, status |-> status, detail |-> detail]

\* users.py lines 45-79: the checks and the commit of the user row.  The phone
\* column is unique: the commit of a second user with the phone fails.
RegisterUser(s, data) ==
    /\ req[s] = Idle
    /\ userSeq < MaxUsers
    /\ IF ~NormalizePhone(data.phone).ok
       THEN Refuse(s, "register", 400, "phone") /\ UNCHANGED <<users, userSeq, hist>>
       ELSE IF ValidatePassword(data.password) # 200
       THEN Refuse(s, "register", 400, "password") /\ UNCHANGED <<users, userSeq, hist>>
       ELSE IF UserByEmail(data.email) # {}
       THEN Refuse(s, "register", 400, "email") /\ UNCHANGED <<users, userSeq, hist>>
       ELSE IF \E id \in DOMAIN users : users[id].phone = RegisterUserRow(data).phone
       THEN Refuse(s, "register", 500, "phone") /\ UNCHANGED <<users, userSeq, hist>>
       ELSE /\ userSeq' = userSeq + 1
            /\ users' = [id \in DOMAIN users \cup {userSeq + 1} |->
                           IF id = userSeq + 1 THEN RegisterUserRow(data)
                           ELSE users[id]]
            /\ hist' = [hist EXCEPT !.phone =
                           [id \in DOMAIN users \cup {userSeq + 1} |->
                               IF id = userSeq + 1 THEN data.phone ELSE hist.phone[id]]]
            /\ req' = [req EXCEPT ![s] =
                          [op |-> "register", pc |-> "cart", user |-> userSeq + 1]]
            /\ UNCHANGED last
    /\ UNCHANGED <<products, productSeq, carts, cartItems, itemSeq, addresses,
                   orders, orderItems, orderSeq, mailbox, now, known>>

\* users.py lines 81-88: the cart row, in a commit of its own, and the response.
\* carts.user_id is unique (app/models.py line 361): the commit fails if the
\* user has got a cart meanwhile.
RegisterCart(s) ==
    /\ req[s].op = "register" /\ req[s].pc = "cart"
    /\ IF req[s].user \in carts
       THEN Respond(s, "register", 500) /\ UNCHANGED carts
       ELSE /\ carts' = carts \cup {req[s].user}
            /\ Respond(s, "register", 200)
    /\ UNCHANGED <<products, productSeq, cartItems, itemSeq, addresses, orders,
                   orderItems, orderSeq, authVars>>

\* the request dies between its two commits
AbortRegister(s) ==
    /\ req[s].op = "register"
    /\ Respond(s, "register", 500)
    /\ UNCHANGED <<products, productSeq, carts, cartItems, itemSeq, addresses,
                   orders, orderItems, orderSeq, authVars>>

\* settings.py line 29: random.randint(100000, 999999)
CodeMin == 100000
CodeMax == 999999
Codes == {CodeMin, CodeMax}

\* jwt.py line 10
ACCESS_TOKEN_EXPIRE_MINUTES == 1440
ResetMinutes == 15

\* jwt.py lines 20-28: the expiry of the data is replaced by the default one;
\* the token is the signed data
create_access_token(data) ==
    [user_id |-> data.user_id, code |-> data.code,
     exp |-> now + ACCESS_TOKEN_EXPIRE_MINUTES, signed |-> TRUE]

\* jwt.py lines 34-38: the data of a token with a good signature that has not
\* expired, and None for any other
decode_access_token(token) ==
    IF token.signed /\ token.exp >= now
    THEN [none |-> FALSE, user_id |-> token.user_id, code |-> token.code]
    ELSE [none |-> TRUE, user_id |-> 0, code |-> 0]

\* jwt.py line 28: jwt.encode signs the data and does not encrypt it, so the
\* holder of a token reads its data
TokenData(token) == [user_id |-> token.user_id, code |-> token.code]

\* settings.py lines 19-45: the code goes to the user's mailbox, and the token
\* that carries it goes to the client in the response
ForgotPassword(email) ==
    /\ Cardinality(known) < MaxTokens
    /\ IF UserByEmail(email) = {}
       THEN last' = Response("forgot_password", 404)
            /\ UNCHANGED <<mailbox, known, hist>>
       ELSE \E code \in Codes :
              LET id == CHOOSE u \in UserByEmail(email) : TRUE
                  reset_token == create_access_token(
                      [user_id |-> id, code |-> code, exp |-> now + ResetMinutes])
              IN /\ mailbox' = [mailbox EXCEPT ![id] = @ \cup {code}]
                 /\ known' = known \cup {reset_token}
                 /\ hist' = [hist EXCEPT !.issued =
                                @ \cup {[token |-> reset_token, at |-> now]}]
                 /\ last' = Response("forgot_password", 200)
    /\ UNCHANGED <<shopVarsButLast, users, userSeq, now>>

\* settings.py lines 51-80
ResetPassword(reset_token, code, new_password) ==
    /\ LET payload == decode_access_token(reset_token)
       IN IF payload.none
          THEN last' = [op |-> "reset_password", status |-> 400, detail |-> "token"]
               /\ UNCHANGED <<users, hist>>
          ELSE IF payload.code # code
          THEN last' = [op |-> "reset_password", status |-> 400, detail |-> "code"]
               /\ UNCHANGED <<users, hist>>
          ELSE IF payload.user_id \notin DOMAIN users
          THEN last' = Response("reset_password", 404) /\ UNCHANGED <<users, hist>>
          ELSE IF ValidatePassword(new_password) # 200
          THEN last' = [op |-> "reset_password", status |-> 400, detail |-> "password"]
               /\ UNCHANGED <<users, hist>>
          ELSE /\ users' = [users EXCEPT ![payload.user_id].password_hash =
                                             HashPassword(new_password)]
               /\ hist' = [hist EXCEPT !.reset = @ \cup {payload.user_id}]
               /\ last' = Response("reset_password", 200)
    /\ UNCHANGED <<shopVarsButLast, userSeq, mailbox, now, known>>

\* the owner of a mailbox opens it; the codes in it are then the client's too
ReadMailbox(u) ==
    /\ u \in DOMAIN users
    /\ mailbox[u] # {}
    /\ u \notin hist.read
    /\ hist' = [hist EXCEPT !.read = @ \cup {u}]
    /\ UNCHANGED <<shopVars, users, userSeq, mailbox, now, known>>

\* the clock moves on
Times == {0, ResetMinutes + 1, ACCESS_TOKEN_EXPIRE_MINUTES + ResetMinutes + 2}
Tick ==
    /\ \E t \in Times : t > now /\ now' = t
    /\ UNCHANGED <<shopVars, users, userSeq, mailbox, known, hist>>

\* What a client sends to reset-password: a token it was given or one it made
\* up (unsigned), and a code it has read in a token or in a mailbox it opened.
ForgedTokens ==
    {[user_id |-> u, code |-> c, exp |-> ACCESS_TOKEN_EXPIRE_MINUTES, signed |-> FALSE] :
        u \in DOMAIN users, c \in {CodeMin}}
ClientTokens == known \cup ForgedTokens
ClientCodes ==
    {TokenData(t).code : t \in known}
    \cup UNION {mailbox[u] : u \in hist.read}

----------------------------------------------------------------------------
(* deals: app/routers/deals.py *)

\* A datetime of a request is absent, naive (minutes of Nairobi local time) or
\* aware (minutes of UTC).
NoTime == [kind |-> "none"]
Naive(t) == [kind |-> "naive", t |-> t]
Aware(utc) == [kind |-> "aware", utc |-> utc]

\* line 22: NAIROBI_TZ = timezone(timedelta(hours=3)), in minutes
NairobiOffset == 180

\* lines 25-35: an aware datetime becomes Nairobi local time without zone
_naive_nairobi(dt) ==
    IF dt.kind = "none" THEN NoTime
    ELSE IF dt.kind = "aware" THEN Naive(dt.utc + NairobiOffset)
    ELSE dt

\* lines 105-111
DealRow(id, data) ==
    [id |-> id, title |-> data.title,
     starts_at |-> _naive_nairobi(data.starts_at),
     ends_at |-> _naive_nairobi(data.ends_at)]

\* lines 125-134: one DealItem per item of the request
DealItemRows(deal_id, items) ==
    {[deal_id |-> deal_id, product_id |-> items[i], sort_order |-> i] :
        i \in DOMAIN items}

\* lines 93-115: the dates are checked, then the deal row is committed
StartCreateDeal(s, data) ==
    /\ req[s] = Idle
    /\ dealSeq < MaxDeals
    /\ LET starts_at == _naive_nairobi(data.starts_at)
           ends_at == _naive_nairobi(data.ends_at)
       IN IF starts_at # NoTime /\ ends_at # NoTime /\ ends_at.t < starts_at.t
          THEN /\ Respond(s, "create_deal", 400)
               /\ UNCHANGED <<deals, dealSeq>>
          ELSE /\ deals' = deals \cup {DealRow(dealSeq + 1, data)}
               /\ dealSeq' = dealSeq + 1
               /\ IF data.items = <<>>
                  THEN Respond(s, "create_deal", 200)
                  ELSE /\ req' = [req EXCEPT ![s] =
                              [op |-> "create_deal", pc |-> "items",
                               deal_id |-> dealSeq + 1, items |-> data.items]]
                       /\ UNCHANGED last
    /\ UNCHANGED dealItems

\* lines 117-138: the products of the items are looked up; 404 if one is
\* missing, else the deal items are committed
CreateDealItems(s) ==
    /\ req[s].op = "create_deal" /\ req[s].pc = "items"
    /\ LET product_ids == {req[s].items[i] : i \in DOMAIN req[s].items}
           missing == product_ids \ DOMAIN products
       IN IF missing # {}
          THEN /\ Respond(s, "create_deal", 404)
               /\ UNCHANGED dealItems
          ELSE /\ dealItems' = dealItems \cup DealItemRows(req[s].deal_id, req[s].items)
               /\ Respond(s, "create_deal", 200)
    /\ UNCHANGED <<deals, dealSeq>>

\* lines 144-152: every deal with the products of its items
list_deals(ds, dis) ==
    {[id |-> d.id, title |-> d.title,
      products |-> {di.product_id : di \in {x \in dis : x.deal_id = d.id}}] : d \in ds}

----------------------------------------------------------------------------
(* Specifications of the shop *)

InitShop(stocked) ==
    /\ products = [p \in stocked |->
                     [name |-> "cement", price |-> p, discount_percentage |-> 0,
                      stock |-> InitStock]]
    /\ productSeq = Cardinality(stocked)
    /\ carts = {1}
    /\ cartItems = {}
    /\ itemSeq = 0
    /\ addresses = {[id |-> 1, user_id |-> 1], [id |-> 2, user_id |-> 2]}
    /\ orders = {}
    /\ orderItems = {}
    /\ orderSeq = 0
    /\ req = [s \in Slots |-> Idle]
    /\ last = Response("none", 0)
    /\ deals = {} /\ dealItems = {} /\ dealSeq = 0

InitAuth ==
    /\ users = <<>>
    /\ userSeq = 0
    /\ mailbox = [u \in 1..MaxUsers |-> {}]
    /\ now = 0
    /\ known = {}
    /\ hist = [phone |-> <<>>, reset |-> {}, read |-> {}, issued |-> {}]

Init == InitShop({1}) /\ InitAuth

CheckoutStep(s, callers) ==
    \/ \E u \in callers, a \in AddressInputs : StartCheckout(s, u, a)
    \/ CheckoutLoadProducts(s)
    \/ FlushOrder(s)
    \/ CheckoutCommit(s)

CartStep(s, callers, quantities) ==
    \/ \E u \in callers, p \in ProductIds, q \in quantities : StartAddToCart(s, u, p, q)
    \/ CommitAddToCart(s)
    \/ \E u \in callers, i \in 1..MaxItems, q \in quantities :
           StartUpdateCartItem(s, u, i, q)
    \/ CommitUpdateCartItem(s)

RemoveStep(s, callers) ==
    \/ \E u \in callers, i \in 1..MaxItems : StartRemoveCartItem(s, u, i)
    \/ CommitRemoveCartItem(s)

\* add_to_cart, update_cart_item and checkout requests of any users, interleaved
\* at their awaits, any of which may die before it commits; one product is on
\* sale and the admin is away
Next ==
    /\ \E s \in Slots : \/ CheckoutStep(s, UserIds)
                        \/ CartStep(s, UserIds, 1..MaxQty)
                        \/ Abort(s)
    /\ UNCHANGED <<authVars, dealVars>>

Spec == Init /\ [][Next]_vars

\* The requests of one user, one at a time, over two products; the admin
\* restocks, empties and deletes products
SerialQuantities == 1..(MaxQty + 1)

StockUpdates == {[stock |-> 0], [stock |-> InitStock + 1]}

InitSerial == InitShop(ProductIds) /\ InitAuth

UserRequest ==
    \/ CheckoutStep(1, {1})
    \/ CartStep(1, {1}, SerialQuantities)
    \/ RemoveStep(1, {1})

AdminRequest(updates) ==
    \/ \E p \in ProductIds, data \in updates : UpdateProduct(p, data)
    \/ \E p \in ProductIds : DeleteProduct(p)

\* every request, the admin's too, starts when no other is running
NextSerial ==
    /\ UserRequest \/ (req[1] = Idle /\ AdminRequest(StockUpdates))
    /\ UNCHANGED <<authVars, dealVars>>

SpecSerial == InitSerial /\ [][NextSerial]_vars

\* the admin's requests run between the steps of the user's request
NextRace ==
    /\ UserRequest \/ AdminRequest(StockUpdates)
    /\ UNCHANGED <<authVars, dealVars>>

SpecRace == InitSerial /\ [][NextRace]_vars

\* the cart requests of two users, interleaved at their awaits, while the admin
\* restocks the product on sale
NextIsolation ==
    /\ \/ \E s \in Slots : \/ CartStep(s, UserIds, SerialQuantities)
                           \/ RemoveStep(s, UserIds)
       \/ UpdateProduct(1, [stock |-> InitStock + 1])
    /\ UNCHANGED <<authVars, dealVars>>

SpecIsolation == Init /\ [][NextIsolation]_vars

\* checkouts of two users, one request at a time, with any address id, while
\* the users delete their addresses between the steps of a request
NextAddress ==
    /\ \/ CheckoutStep(1, UserIds)
       \/ \E u \in UserIds, p \in ProductIds, q \in 1..MaxQty : StartAddToCart(1, u, p, q)
       \/ CommitAddToCart(1)
       \/ \E u \in UserIds, a \in AddressInputs : delete_address(u, a)
    /\ UNCHANGED <<authVars, dealVars>>

SpecAddress == InitSerial /\ [][NextAddress]_vars

\* the admin also renames and reprices products
HistoryUpdates == StockUpdates \cup {[name |-> "sand", price |-> 3]}

NextHistory ==
    /\ UserRequest \/ AdminRequest(HistoryUpdates)
    /\ UNCHANGED <<authVars, dealVars>>

SpecHistory == InitSerial /\ [][NextHistory]_vars

\* the catalog alone: the admin creates, updates and deletes products
DiscountInputs == {0 - 5, 0, 50, 100, 150}

CreateInputs ==
    {[name |-> "sand", price |-> 3, stock |-> InitStock]}
    \cup {[name |-> "sand", price |-> 3, stock |-> InitStock,
           discount_percentage |-> d] : d \in DiscountInputs}

CatalogUpdates ==
    {[discount_percentage |-> d] : d \in DiscountInputs}
    \cup {[name |-> "sand", price |-> 3], [stock |-> 0]}

NextCatalog ==
    /\ \/ \E data \in CreateInputs : CreateProduct(data)
       \/ \E p \in 1..MaxProducts, data \in CatalogUpdates : UpdateProduct(p, data)
       \/ \E p \in 1..MaxProducts : DeleteProduct(p)
    /\ UNCHANGED <<authVars, dealVars>>

SpecCatalog == Init /\ [][NextCatalog]_vars

\* the admin creates deals over a catalog of one product
DealTimes == {NoTime, Naive(200), Naive(100), Aware(100)}

DealInputs ==
    {[title |-> "offer", starts_at |-> a, ends_at |-> b, items |-> it] :
        a \in {NoTime, Naive(200)}, b \in DealTimes,
        it \in {<<>>, <<1>>, <<2>>, <<1, 2>>}}

NextDeals ==
    /\ \/ \E data \in DealInputs : StartCreateDeal(1, data)
       \/ CreateDealItems(1)
    /\ UNCHANGED <<products, productSeq, carts, cartItems, itemSeq, addresses,
                   orders, orderItems, orderSeq, authVars>>

SpecDeals == Init /\ [][NextDeals]_vars

\* registration and password reset: the requests of a client, which may be
\* the owner of an account or not
InitAuthShop ==
    /\ InitAuth
    /\ products = <<>> /\ productSeq = 0 /\ carts = {} /\ cartItems = {}
    /\ itemSeq = 0 /\ addresses = {} /\ orders = {} /\ orderItems = {}
    /\ orderSeq = 0 /\ req = [s \in Slots |-> Idle] /\ last = Response("none", 0)
    /\ deals = {} /\ dealItems = {} /\ dealSeq = 0

LocalPhones == {LocalForm(n) : n \in ValidNational}

NextAuth ==
  /\ UNCHANGED dealVars
  /\
    \/ \E data \in RegisterInputs(LocalPhones, PasswordInputs) : RegisterUser(1, data)
    \/ RegisterCart(1)
    \/ AbortRegister(1)
    \/ \E e \in Emails : ForgotPassword(e)
    \/ \E t \in ClientTokens, c \in ClientCodes, pw \in PasswordInputs :
           ResetPassword(t, c, pw)
    \/ \E u \in 1..MaxUsers : ReadMailbox(u)

SpecAuth == InitAuthShop /\ [][NextAuth]_vars

\* password reset while the clock runs: accounts are registered with a strong
\* password, and reset to another one
OtherStrongPassword == [len |-> MinPasswordLength + 1, classes |-> CharClasses]

NextReset ==
  /\ UNCHANGED dealVars
  /\
    \/ \E data \in RegisterInputs(LocalPhones, {StrongPassword}) : RegisterUser(1, data)
    \/ RegisterCart(1)
    \/ \E e \in Emails : ForgotPassword(e)
    \/ \E t \in ClientTokens, c \in ClientCodes :
           ResetPassword(t, c, OtherStrongPassword)
    \/ Tick

SpecReset == InitAuthShop /\ [][NextReset]_vars

\* registration in slot 1, and in slot 2 the cart requests of the users that
\* are registered, for the one product on sale
InitCarts ==
    /\ InitAuth
    /\ products = [p \in {1} |->
                     [name |-> "cement", price |-> p, discount_percentage |-> 0,
                      stock |-> InitStock]]
    /\ productSeq = 1 /\ carts = {} /\ cartItems = {}
    /\ itemSeq = 0 /\ addresses = {} /\ orders = {} /\ orderItems = {}
    /\ orderSeq = 0 /\ req = [s \in Slots |-> Idle] /\ last = Response("none", 0)
    /\ deals = {} /\ dealItems = {} /\ dealSeq = 0

NextCarts ==
    \/ /\ \/ \E data \in RegisterInputs(LocalPhones, {StrongPassword}) :
                 RegisterUser(1, data)
          \/ RegisterCart(1)
          \/ AbortRegister(1)
       /\ UNCHANGED dealVars
    \/ /\ \/ \E u \in DOMAIN users : get_my_cart(u)
          \/ \E u \in DOMAIN users, q \in 1..MaxQty : StartAddToCart(2, u, 1, q)
          \/ CommitAddToCart(2)
       /\ UNCHANGED <<authVars, dealVars>>

SpecCarts == InitCarts /\ [][NextCarts]_vars

\* registration alone, with phone numbers in every form
NextRegister ==
  /\ UNCHANGED dealVars
  /\
    \/ \E data \in RegisterInputs(PhoneInputs, {StrongPassword,
                                   [len |-> MinPasswordLength - 1, classes |-> CharClasses]}) :
           RegisterUser(1, data)
    \/ RegisterCart(1)
    \/ AbortRegister(1)

SpecRegister == InitAuthShop /\ [][NextRegister]_vars

----------------------------------------------------------------------------
(* Properties *)

ItemsOfOrder(o) == {oi \in orderItems : oi.order_id = o.id}

Sold(p) == SumQty({oi \in orderItems : oi.product_id = p})

RECURSIVE SumAmount(_)
SumAmount(S) ==
    IF S = {} THEN 0
    ELSE LET x == CHOOSE y \in S : TRUE
         IN x.price_at_purchase * x.quantity + SumAmount(S \ {x})

\* C1: checkout is all-or-nothing.  In every committed state, an order has all
\* of its order items (at least one, and they add up to its subtotal), every
\* order item belongs to an order, the cart items an order was made from are out
\* of the cart, and a product's stock is below its initial value exactly when an
\* order item of the product exists.
CheckoutAllOrNothing ==
    /\ \A o \in orders :
          /\ ItemsOfOrder(o) # {}
          /\ SumAmount(ItemsOfOrder(o)) = o.subtotal
    /\ \A oi \in orderItems :
          /\ \E o \in orders : o.id = oi.order_id
          /\ ~\E ci \in cartItems : ci.id = oi.id
    /\ \A p \in DOMAIN products :
          (products[p].stock < InitStock) <=> (\E oi \in orderItems : oi.product_id = p)

\* C1 witness: one checkout has committed and another one died after its flush
\* (its order id is used up and no order has it)
CheckoutCommittedAndAborted ==
    /\ orders # {}
    /\ orderSeq > Cardinality(orders)
    /\ \A s \in Slots : req[s] = Idle

\* C2: with requests one at a time, a successful checkout creates one order of
\* the caller, one order item per cart item with its product and quantity,
\* lowers each product's stock by the quantity of the cart's item of it (so not
\* at all for products that are not in the cart), and empties the caller's cart.
CheckoutEffect ==
    [][(CheckoutCommit(1) /\ last'.status = 200) =>
        LET u == req[1].user
            cart == ItemsOfCart(u)
            newOrders == orders' \ orders
            newItems == orderItems' \ orderItems
        IN /\ orders \subseteq orders'
           /\ orderItems \subseteq orderItems'
           /\ Cardinality(newOrders) = 1
           /\ \A o \in newOrders : o.buyer_id = u
           /\ \A oi \in newItems : \A o \in newOrders : oi.order_id = o.id
           /\ Cardinality(newItems) = Cardinality(cart)
           /\ \A ci \in cart : \E oi \in newItems :
                  oi.product_id = ci.product_id /\ oi.quantity = ci.quantity
           /\ DOMAIN products' = DOMAIN products
           /\ \A p \in DOMAIN products :
                  products'[p].stock
                      = products[p].stock - SumQty(ItemsOfProduct(cart, p))
           /\ {ci \in cartItems' : ci.cart_id = u} = {}
           /\ cart # {}
      ]_vars

\* C2 witness: a checkout has succeeded for a cart that held two units of a
\* product, and the other product keeps stock
CheckoutOfTwoUnits ==
    /\ last = Response("checkout", 200)
    /\ \E oi \in orderItems : oi.quantity = 2
    /\ \E p \in DOMAIN products : products[p].stock > 0 /\ Sold(p) = 0

\* a cart item of the request whose product is gone or short of stock now
Unavailable(ci) ==
    \/ ci.product_id \notin DOMAIN products
    \/ ci.quantity > products[ci.product_id].stock

\* C3: validation precedes every write of checkout.  When the products of the
\* cart are loaded and some item's product is gone or has less stock than the
\* item's quantity, the request ends there with 400 or 404 (404 when only gone
\* products are the matter, 400 when only stock is) and no order, order item,
\* stock or cart item has changed, whatever the other items of the cart.
CheckoutValidatesBeforeWriting ==
    [][(/\ CheckoutLoadProducts(1)
        /\ \E ci \in req[1].items : Unavailable(ci)) =>
        /\ req'[1] = Idle
        /\ last'.op = "checkout" /\ last'.status \in {400, 404}
        /\ (\A ci \in req[1].items :
               Unavailable(ci) => ci.product_id \notin DOMAIN products)
           => last'.status = 404
        /\ (\A ci \in req[1].items : ci.product_id \in DOMAIN products)
           => last'.status = 400
        /\ UNCHANGED <<products, cartItems, orders, orderItems>>
      ]_vars

\* C3 witness: a checkout was refused with 400 for a cart of two items, one of
\* them in stock
CheckoutRefusedWithItemInStock ==
    /\ last = Response("checkout", 400)
    /\ req[1] = Idle
    /\ \E ci, cj \in ItemsOfCart(1) :
          /\ ci.product_id \in DOMAIN products
          /\ cj.product_id \in DOMAIN products
          /\ ci.quantity > products[ci.product_id].stock
          /\ cj.quantity <= products[cj.product_id].stock

\* C4: the cart's stock check.  add_to_cart for a product whose stock is 0 or
\* less, or less than the quantity in the cart plus the quantity requested, and
\* update_cart_item to a quantity above the stock, end with 400 and leave the
\* cart items as they were; a cart request that succeeds leaves its item with
\* a quantity of at most the product's stock.
CartStockCheck ==
    [][/\ \A p \in ProductIds, q \in SerialQuantities :
            (/\ StartAddToCart(1, 1, p, q)
             /\ p \in DOMAIN products
             /\ \/ products[p].stock <= 0
                \/ SumQty(ItemsOfProduct(ItemsOfCart(1), p)) + q > products[p].stock)
            => (last' = Response("add_to_cart", 400)
                /\ req'[1] = Idle /\ cartItems' = cartItems)
       /\ \A i \in 1..MaxItems, q \in SerialQuantities :
            (/\ StartUpdateCartItem(1, 1, i, q)
             /\ \E ci \in ItemsOfCart(1) :
                   /\ ci.id = i /\ ci.product_id \in DOMAIN products
                   /\ q > products[ci.product_id].stock)
            => (last' = Response("update_cart_item", 400)
                /\ req'[1] = Idle /\ cartItems' = cartItems)
       /\ ((CommitAddToCart(1) /\ last'.status = 201)
           \/ (CommitUpdateCartItem(1) /\ last'.status = 200))
            => \A ci \in cartItems' :
                   ci \notin cartItems =>
                       /\ ci.product_id \in DOMAIN products
                       /\ ci.quantity <= products[ci.product_id].stock
      ]_vars

\* C4 witness: an add_to_cart was refused while the cart holds the product and
\* one more unit alone would fit the stock
AddRefusedOverCartQuantity ==
    /\ last = Response("add_to_cart", 400)
    /\ req[1] = Idle
    /\ \E ci \in ItemsOfCart(1) :
          /\ ci.product_id \in DOMAIN products
          /\ products[ci.product_id].stock >= 1
          /\ ci.quantity = products[ci.product_id].stock

\* C5: every stored product has a discount between 0 and 100.
DiscountBounds ==
    \A p \in DOMAIN products :
        /\ 0 <= products[p].discount_percentage
        /\ products[p].discount_percentage <= 100

Weak(password) ==
    \/ password.len < 8
    \/ \E c \in {"upper", "lower", "digit", "special"} : c \notin password.classes

\* C6: password strength.  register and reset_password refuse with 400 a
\* password of fewer than 8 characters or without an uppercase letter, a
\* lowercase letter, a digit or a special character, and then no user is
\* created and no password hash changes; every password hash that is stored is
\* the hash of a password that has all of these.  (Each of the first two
\* conjuncts reads: the step is no such request, or it was refused, or no weak
\* password makes it a step of the handler.)
PasswordStrength ==
    [][/\ \/ ~(req[1] = Idle /\ "register" \in {last'.op, req'[1].op})
          \/ (last'.op = "register" /\ last'.status = 400
               /\ users' = users /\ req'[1] = Idle)
          \/ \A data \in RegisterInputs(LocalPhones, PasswordInputs) :
                 ~(Weak(data.password) /\ RegisterUser(1, data))
       /\ \/ last'.op # "reset_password"
          \/ (last'.status = 400 /\ users' = users)
          \/ \A pw \in PasswordInputs, t \in ClientTokens, c \in ClientCodes :
                 ~(Weak(pw) /\ ResetPassword(t, c, pw))
       /\ \A id \in DOMAIN users' :
            (id \notin DOMAIN users
             \/ users'[id].password_hash # users[id].password_hash)
            => ~Weak(users'[id].password_hash.bcrypt)
      ]_vars

\* C6 witness: a reset-password with a good token and the right code was
\* refused for its password, and no password has been reset
ResetRefusedForPassword ==
    /\ last = [op |-> "reset_password", status |-> 400, detail |-> "password"]
    /\ hist.reset = {}
    /\ users # <<>>

\* C7: phone normalization.  A registration with a valid number, in local or
\* in international form, stores the number's international (E.164) form, the
\* same for both forms; a registration with any other phone is refused with 400
\* and creates no user.
PhoneNormalized ==
    [][\A data \in RegisterInputs(PhoneInputs, PasswordInputs) :
          RegisterUser(1, data) =>
             IF \E n \in ValidNational : data.phone \in {LocalForm(n), IntlForm(n), n}
             THEN \A id \in DOMAIN users' \ DOMAIN users :
                     \E n \in ValidNational :
                        /\ data.phone \in {LocalForm(n), IntlForm(n), n}
                        /\ users'[id].phone = IntlForm(n)
             ELSE /\ last'.op = "register" /\ last'.status = 400
                  /\ users' = users
      ]_vars

\* C7 witness: two users are registered, one who gave a number in local form
\* and one who gave a number in international form
RegisteredInBothForms ==
    \E a, b \in DOMAIN users :
        /\ hist.phone[a] \in {LocalForm(n) : n \in ValidNational}
        /\ hist.phone[b] \in {IntlForm(n) : n \in ValidNational}
        /\ Head(users[a].phone) = "+"

\* C8: no overselling.  What was sold of a product plus what is in stock is
\* the stock the product started with.
NoOverselling ==
    \A p \in DOMAIN products : Sold(p) + products[p].stock = InitStock

\* C9: order history is preserved.  The admin's update_product and
\* delete_product leave every order and every order item as it was.
OrderHistoryPreserved ==
    [][((\E p \in ProductIds, data \in HistoryUpdates : UpdateProduct(p, data))
        \/ (\E p \in ProductIds : DeleteProduct(p)))
       => (orders' = orders /\ orderItems' = orderItems)
      ]_vars

\* C10: reset-code confidentiality.  A user's password is reset only after the
\* user's mailbox was read.
ResetNeedsMailbox == \A u \in hist.reset : u \in hist.read

\* C11: the reset code is valid for 15 minutes.  A reset-password that presents
\* a token more than 15 minutes after forgot-password issued it is refused with
\* 400 and changes no user row.
ResetTokenExpires ==
    [][\A t \in known, c \in ClientCodes :
          (/\ ResetPassword(t, c, OtherStrongPassword)
           /\ \E i \in hist.issued : i.token = t /\ now > i.at + ResetMinutes)
          => (last'.status = 400 /\ users' = users)
      ]_vars

\* C12: a failed create_deal creates nothing.  When create_deal ends with 404
\* for an item whose product does not exist, list_deals shows no deal of the
\* request (deal ids are fresh, so what it shows is what it showed before) and
\* no deal item of the request exists.
FailedCreateDealCreatesNothing ==
    [][(CreateDealItems(1) /\ last'.status = 404) =>
        /\ ~\E d \in list_deals(deals', dealItems') : d.id = req[1].deal_id
        /\ ~\E di \in dealItems' : di.deal_id = req[1].deal_id
      ]_vars

\* C13: stock is never negative.  With products stocked at 0 or more, under any
\* interleaving of add_to_cart, update_cart_item and checkout requests of any
\* users, every product's stock is 0 or more.
StockNeverNegative == \A p \in DOMAIN products : products[p].stock >= 0

\* C14: a cart is ordered at most once.  No two order items were made from the
\* same cart item (an order item's id is the id of the cart item it was made
\* from), so the cart items of a cart are in at most one order and their
\* stock is taken once.
CartOrderedOnce ==
    \A oi, oj \in orderItems : oi.id = oj.id => oi.order_id = oj.order_id

\* C15: one cart item per product.  With requests one at a time, after every
\* step a cart holds at most one item per product; add_to_cart for a product
\* that is in the cart targets the item that is there with its quantity plus
\* the requested one, and its commit changes that item's quantity and adds no
\* item.
OneCartItemPerProduct ==
    [][/\ \A ci, cj \in cartItems' :
            (ci.cart_id = cj.cart_id /\ ci.product_id = cj.product_id)
            => ci.id = cj.id
       /\ \/ ~(req[1] = Idle /\ req'[1].op = "add_to_cart")
          \/ \A p \in ProductIds, q \in SerialQuantities :
                StartAddToCart(1, 1, p, q) =>
                   \A ci \in ItemsOfProduct(ItemsOfCart(1), p) :
                       /\ req'[1].item_id = ci.id
                       /\ req'[1].quantity = ci.quantity + q
       /\ (CommitAddToCart(1) /\ last'.status = 201 /\ req[1].item_id # 0)
            => /\ {ci.id : ci \in cartItems'} = {ci.id : ci \in cartItems}
               /\ Cardinality(cartItems') = Cardinality(cartItems)
               /\ \A ci \in cartItems' :
                     IF ci.id = req[1].item_id
                     THEN ci.quantity = req[1].quantity
                     ELSE ci \in cartItems
      ]_vars

\* C15 witness: add_to_cart of one unit has found the product in the cart with
\* one unit and is about to commit two units for that item
AddToCartFoundItem ==
    /\ req[1].op = "add_to_cart"
    /\ req[1].item_id # 0
    /\ req[1].quantity = 2
    /\ \E ci \in ItemsOfCart(1) : ci.id = req[1].item_id /\ ci.quantity = 1

\* C16: cart isolation.  update_cart_item and remove_cart_item called with the
\* id of an item of another user's cart end with 404 and leave every cart item
\* as it was, and the commit of a cart request of one user leaves the items of
\* every other user's cart as they were.
CartIsolation ==
    [][/\ \A s \in Slots, u \in UserIds, i \in 1..MaxItems :
            (\E ci \in cartItems : ci.id = i /\ ci.cart_id # u) =>
              /\ \A q \in SerialQuantities :
                    StartUpdateCartItem(s, u, i, q) =>
                       /\ last' = Response("update_cart_item", 404)
                       /\ req'[s] = Idle /\ cartItems' = cartItems
              /\ StartRemoveCartItem(s, u, i) =>
                       /\ last' = Response("remove_cart_item", 404)
                       /\ req'[s] = Idle /\ cartItems' = cartItems
       /\ \A s \in Slots :
            (CommitAddToCart(s) \/ CommitUpdateCartItem(s) \/ CommitRemoveCartItem(s))
            => \A v \in UserIds \ {req[s].user} :
                  {ci \in cartItems' : ci.cart_id = v} = ItemsOfCart(v)
      ]_vars

\* C16 witness: every cart item id is taken, the two users hold an item each,
\* and a remove_cart_item (of the id of the other user's item, then) got 404
RemoveOfOthersItemRefused ==
    /\ last = Response("remove_cart_item", 404)
    /\ \A i \in 1..MaxItems : \E ci \in cartItems : ci.id = i
    /\ \A u \in UserIds : ItemsOfCart(u) # {}

\* C17: checkout verifies that the address belongs to the user.  Every order a
\* checkout commits has the id of an address that exists then and is owned by
\* the order's buyer; a checkout with an address id that does not exist or is
\* another user's ends with 404 and leaves orders, order items, stock and
\* cart items as they were.
CheckoutAddressOwnership ==
    [][/\ (CheckoutCommit(1) /\ last'.status = 200) =>
            \A o \in orders' \ orders :
               \E ad \in addresses : ad.id = o.address_id /\ ad.user_id = o.buyer_id
       /\ \A u \in UserIds, a \in AddressInputs :
            (/\ StartCheckout(1, u, a)
             /\ ~\E ad \in addresses : ad.id = a /\ ad.user_id = u)
            => /\ last' = Response("checkout", 404)
               /\ req'[1] = Idle
               /\ UNCHANGED <<orders, orderItems, products, cartItems>>
      ]_vars

\* C17 witness: an order of user 1 with user 1's address exists, and a checkout
\* got 404 while both users have a cart, which is then the answer to the
\* address of the request
CheckoutRefusedForAddress ==
    /\ last = Response("checkout", 404)
    /\ req[1] = Idle
    /\ \E o \in orders : o.buyer_id = 1 /\ o.address_id = 1
    /\ \A u \in UserIds : u \in carts /\ ItemsOfCart(2) # {}

\* C18: register creates the user's cart.  In every committed state every
\* registered user owns a cart row (and, carts.user_id being unique, one only).
EveryUserHasOneCart == \A id \in DOMAIN users : id \in carts

====
